---- MODULE Spec2Model ----
(***************************************************************************)
(* A model of backend/tasks/scoring.py: the task-prioritization core.      *)
(*                                                                         *)
(* One call of analyze_tasks is modelled as a state machine: the batch,    *)
(* the strategy and the weights are drawn in Init, build_dependency_graph  *)
(* runs as one step, detect_cycles runs frame by frame (its recursion is   *)
(* an explicit call stack), then every task is scored and the scored list  *)
(* is sorted and returned.                                                 *)
(*                                                                         *)
(* Number representation.  Factor sub-scores (importance, urgency,         *)
(* effort) are whole numbers in the code's domain here, weights are kept   *)
(* in thousandths (0.7 is 700), a full-precision score is therefore in     *)
(* thousandths and the score rounded by round(score, 2) is in hundredths.  *)
(* Hours are kept in tenths of an hour (0.5 h is 5).  A due date is kept   *)
(* as its day offset from date.today().                                    *)
(***************************************************************************)
EXTENDS Integers, Sequences, FiniteSets, TLC

VARIABLES
    tasks,              \* the input batch (a sequence of task dicts)
    strategy,           \* the strategy argument
    weights,            \* the weights argument
    pc,                 \* position inside analyze_tasks
    internal_id,        \* task["_internal_id"], by input position
    graph_keys,         \* keys of id_to_deps, in dict insertion order
    id_to_deps,         \* id_to_deps as a function on its key set
    dependents_count,   \* dependents_count as a function on its key set
    visited,            \* detect_cycles: visited
    on_stack,           \* detect_cycles: on_stack
    in_cycle,           \* detect_cycles: in_cycle
    stack,              \* detect_cycles: the recursion stack of dfs frames
    outer,              \* detect_cycles: position of `for node in graph.keys()`
    entered,            \* history: the nodes that passed the guard of dfs, in order
    scored,             \* the list of ScoredTask
    result              \* what analyze_tasks returns (or the raised error)

vars == <<tasks, strategy, weights, pc, internal_id, graph_keys, id_to_deps,
          dependents_count, visited, on_stack, in_cycle, stack, outer,
          entered, scored, result>>

-----------------------------------------------------------------------------
(* Bounds of the model.                                                    *)

\* Largest batch in the families that vary importance, due date or hours.
MaxRankTasks == 2

\* Largest batch in the family that varies ids and dependency lists.
MaxGraphTasks == 3

-----------------------------------------------------------------------------
(* Values of the optional task fields.                                     *)

\* task.get("importance"): the key is absent, or holds None, a str or an int.
ImpAbsent == [kind |-> "absent", int |-> 0, str |-> ""]
ImpNone == [kind |-> "none", int |-> 0, str |-> ""]
ImpStr(s) == [kind |-> "str", int |-> 0, str |-> s]
ImpInt(n) == [kind |-> "int", int |-> n, str |-> ""]

\* task.get("due_date"): None/absent, or a date given by (d - today).days.
DueNone == [kind |-> "none", days |-> 0]
DueIn(n) == [kind |-> "date", days |-> n]

\* task.get("estimated_hours"): None/absent, or a number (tenths of an hour).
HoursNone == [kind |-> "none", tenths |-> 0]
HoursOf(n) == [kind |-> "num", tenths |-> n]

\* The weights argument: None, or a dict holding the keys in `keys`.
WeightKeys == {"importance", "urgency", "effort", "dependencies"}
WeightsNone == [given |-> FALSE, keys |-> {},
                val |-> [k \in WeightKeys |-> 0]]
WeightsDict(ks, f) == [given |-> TRUE, keys |-> ks,
                       val |-> [k \in WeightKeys |-> IF k \in ks THEN f[k] ELSE 0]]

\* The order of two non-numeric importance strings, as Python compares str.
StrLess(a, b) == a = "high" /\ b = "low"

-----------------------------------------------------------------------------
(* Configuration.                                                          *)

SMART_WEIGHTS ==
    [importance |-> 400, urgency |-> 300, effort |-> 200, dependencies |-> 100]

FASTEST_WINS_WEIGHT_EFFORT == 700
FASTEST_WINS_WEIGHT_URGENCY == 200
FASTEST_WINS_WEIGHT_IMPORTANCE == 100

DEADLINE_DRIVEN_WEIGHT_URGENCY == 700
DEADLINE_DRIVEN_WEIGHT_IMPORTANCE == 300

HIGH_IMPACT_WEIGHT_IMPORTANCE == 1000

-----------------------------------------------------------------------------
(* Helper functions.                                                       *)

Max(a, b) == IF a >= b THEN a ELSE b
Min(a, b) == IF a <= b THEN a ELSE b

clamp(value, minimum, maximum) == Max(minimum, Min(value, maximum))

\* None (kind "none") when there is no date, else the signed day count.
safe_days_until_due(d) ==
    IF d.kind = "none" THEN [kind |-> "none", days |-> 0]
    ELSE [kind |-> "int", days |-> d.days]

\* compute_urgency_score with the sign of the future branch slipped:
\* raw = days instead of raw = 10 - days.
compute_urgency_score_sign_slip(due) ==
    LET days == safe_days_until_due(due) IN
    IF days.kind = "none"
    THEN [score |-> 5, reason |-> "neutral", n |-> 0]
    ELSE IF days.days < 0
    THEN LET days_capped == Max(days.days, -7) IN
         [score |-> clamp(10 + days_capped, 7, 10),
          reason |-> "overdue", n |-> -days.days]
    ELSE LET raw == days.days IN
         [score |-> clamp(raw, 0, 10),
          reason |-> IF days.days = 0 THEN "due today"
                     ELSE IF days.days <= 3 THEN "due soon" ELSE "due in",
          n |-> days.days]

\* The urgency score and its reason; n is the day count the reason text
\* reports ("overdue by N days", "due in N days").
compute_urgency_score(due) ==
    LET days == safe_days_until_due(due) IN
    IF days.kind = "none"
    THEN [score |-> 5, reason |-> "neutral", n |-> 0]
    ELSE IF days.days < 0
    THEN LET days_capped == Max(days.days, -7) IN
         [score |-> clamp(10 + days_capped, 7, 10),
          reason |-> "overdue", n |-> -days.days]
    ELSE LET raw == 10 - days.days IN
         [score |-> clamp(raw, 0, 10),
          reason |-> IF days.days = 0 THEN "due today"
                     ELSE IF days.days <= 3 THEN "due soon" ELSE "due in",
          n |-> days.days]

\* compute_effort_score with the bucket ends excluded: `<` for `<=`.
compute_effort_score_strict(hours) ==
    IF hours.kind = "none" \/ hours.tenths <= 0 THEN [score |-> 6, reason |-> "unknown effort"]
    ELSE IF hours.tenths < 10 THEN [score |-> 10, reason |-> "very low effort"]
    ELSE IF hours.tenths < 30 THEN [score |-> 8, reason |-> "low effort"]
    ELSE IF hours.tenths < 60 THEN [score |-> 6, reason |-> "medium effort"]
    ELSE IF hours.tenths < 100 THEN [score |-> 4, reason |-> "high effort"]
    ELSE [score |-> 2, reason |-> "very high effort"]

\* The effort score: thresholds 1, 3, 6 and 10 hours, in tenths.
compute_effort_score(hours) ==
    IF hours.kind = "none" \/ hours.tenths <= 0 THEN [score |-> 6, reason |-> "unknown effort"]
    ELSE IF hours.tenths <= 10 THEN [score |-> 10, reason |-> "very low effort"]
    ELSE IF hours.tenths <= 30 THEN [score |-> 8, reason |-> "low effort"]
    ELSE IF hours.tenths <= 60 THEN [score |-> 6, reason |-> "medium effort"]
    ELSE IF hours.tenths <= 100 THEN [score |-> 4, reason |-> "high effort"]
    ELSE [score |-> 2, reason |-> "very high effort"]

\* normalize_importance without the clamp to [1, 10].
normalize_importance_unclamped(importance) ==
    IF importance.kind = "int" THEN importance.int ELSE 5

\* int(importance) raises TypeError for None (and for an absent key, which
\* task.get turns into None) and ValueError for a non-numeric str: both are
\* caught and give 5.  An int is clamped to [1, 10].
normalize_importance(importance) ==
    IF importance.kind = "int" THEN clamp(importance.int, 1, 10) ELSE 5

\* str(idx) of a zero-based position.
Digits == <<"0", "1", "2", "3", "4", "5", "6", "7", "8", "9">>
RECURSIVE str(_)
str(n) == IF n < 10 THEN Digits[n + 1] ELSE str(n \div 10) \o Digits[(n % 10) + 1]

\* task.get("id") or str(idx): an absent, None or empty id is falsy.
task_id_of(task, idx) == IF task.id = "" THEN str(idx) ELSE task.id

\* Appends k to the insertion-ordered key list unless it is already a key.
AddKey(keys, k) ==
    IF \E i \in 1..Len(keys) : keys[i] = k THEN keys ELSE Append(keys, k)

\* The first loop of build_dependency_graph over tasks[i..]: the keys of
\* id_to_deps in insertion order (dependents_count gets the same keys).
RECURSIVE AssignIds(_, _, _)
AssignIds(ts, i, keys) ==
    IF i > Len(ts) THEN keys
    ELSE AssignIds(ts, i + 1, AddKey(keys, task_id_of(ts[i], i - 1)))

\* The inner loop `for d in norm_deps`: one increment per listed occurrence.
RECURSIVE CountDeps(_, _, _)
CountDeps(deps, j, dc) ==
    IF j > Len(deps) THEN dc
    ELSE LET d == deps[j]
             cur == IF d \in DOMAIN dc THEN dc[d] ELSE 0
         IN CountDeps(deps, j + 1,
                [k \in (DOMAIN dc) \cup {d} |-> IF k = d THEN cur + 1 ELSE dc[k]])

\* The second loop over tasks[i..]: g is id_to_deps, dc is dependents_count.
RECURSIVE FillDeps(_, _, _, _)
FillDeps(ts, i, g, dc) ==
    IF i > Len(ts) THEN [graph |-> g, dependents |-> dc]
    ELSE LET tid == task_id_of(ts[i], i - 1)
             \* [str(d) for d in deps]: the dependency ids of the model are
             \* strs already, which str() returns unchanged
             norm_deps == ts[i].deps
         IN FillDeps(ts, i + 1,
                [g EXCEPT ![tid] = norm_deps],
                CountDeps(norm_deps, 1, dc))

build_dependency_graph(ts) ==
    LET keys == AssignIds(ts, 1, <<>>)
        keyset == {keys[i] : i \in 1..Len(keys)}
        filled == FillDeps(ts, 1, [k \in keyset |-> <<>>], [k \in keyset |-> 0])
    IN [ids |-> [i \in 1..Len(ts) |-> task_id_of(ts[i], i - 1)],
        keys |-> keys,
        graph |-> filled.graph,
        dependents |-> filled.dependents]

-----------------------------------------------------------------------------
(* Strategy scoring functions (results in thousandths).                    *)

score_fastest_wins(importance, urgency, effort) ==
    FASTEST_WINS_WEIGHT_EFFORT * effort
    + FASTEST_WINS_WEIGHT_URGENCY * urgency
    + FASTEST_WINS_WEIGHT_IMPORTANCE * importance

score_deadline_driven(importance, urgency) ==
    DEADLINE_DRIVEN_WEIGHT_URGENCY * urgency
    + DEADLINE_DRIVEN_WEIGHT_IMPORTANCE * importance

score_high_impact(importance) == HIGH_IMPACT_WEIGHT_IMPORTANCE * importance

\* w = weights or SMART_WEIGHTS: None and the empty dict are both falsy.
\* w.get(key, 0.0): a key the caller's dict lacks weighs nothing.
WeightGet(w, k) ==
    IF w.given /\ w.keys # {}
    THEN (IF k \in w.keys THEN w.val[k] ELSE 0)
    ELSE SMART_WEIGHTS[k]

score_smart_balance(importance, urgency, effort, blocks, w) ==
    WeightGet(w, "importance") * importance
    + WeightGet(w, "urgency") * urgency
    + WeightGet(w, "effort") * effort
    + WeightGet(w, "dependencies") * blocks

\* round(score, 2): thousandths to hundredths, ties to the even hundredth.
round2(x) ==
    LET q == x \div 10
        r == x % 10
    IN IF r < 5 THEN q
       ELSE IF r > 5 THEN q + 1
       ELSE IF q % 2 = 0 THEN q ELSE q + 1

\* One ScoredTask.  urgency, effort, importance and blocks are what the
\* explanation string reports.
score_task(task, tid, strat, dc, w, cyc) ==
    LET importance == normalize_importance(task.importance)
        urg == compute_urgency_score(task.due)
        eff == compute_effort_score(task.hours)
        blocks == IF tid \in DOMAIN dc THEN dc[tid] ELSE 0
        score == IF strat = "fastest_wins"
                 THEN score_fastest_wins(importance, urg.score, eff.score)
                 ELSE IF strat = "high_impact"
                 THEN score_high_impact(importance)
                 ELSE IF strat = "deadline_driven"
                 THEN score_deadline_driven(importance, urg.score)
                 ELSE score_smart_balance(importance, urg.score, eff.score, blocks, w)
    IN [task |-> task,
        score |-> round2(score),
        strategy |-> strat,
        importance |-> importance,
        urgency |-> urg,
        effort |-> eff,
        blocks |-> blocks,
        has_cycle |-> (cyc # {} /\ tid \in cyc)]

-----------------------------------------------------------------------------
(* The sort of analyze_tasks.                                              *)

\* st.task.get("importance", 0): only an absent key takes the default 0; a
\* key holding None stays None.
raw_importance(task) ==
    IF task.importance.kind = "absent" THEN ImpInt(0) ELSE task.importance

\* key=lambda st: (st.score, st.task.get("importance", 0))
sort_key(st) == [score |-> st.score, imp |-> raw_importance(st.task)]

\* Python orders int with int and str with str; None supports no `<`.
Orderable(a, b) ==
    \/ a.kind = "int" /\ b.kind = "int"
    \/ a.kind = "str" /\ b.kind = "str"

ImpLess(a, b) ==
    IF a.kind = "int" THEN a.int < b.int ELSE StrLess(a.str, b.str)

\* Tuple comparison: the first position where the tuples differ (by ==)
\* decides, by `<` on that position.  Equal tuples are not less.
KeyLess(a, b) ==
    IF a.score # b.score THEN a.score < b.score
    ELSE IF a.imp = b.imp THEN FALSE
    ELSE ImpLess(a.imp, b.imp)

\* The comparison of two keys raises TypeError when the scores are equal,
\* the importances differ and `<` is not defined between them.
KeyRaises(a, b) ==
    a.score = b.score /\ a.imp # b.imp /\ ~Orderable(a.imp, b.imp)

\* list.sort raises when a comparison it makes raises.  A comparison sort
\* cannot order two elements of equal score without comparing, directly or
\* through a chain of elements of that same score, their importances; the
\* orderable importances form classes (int, str), so a tied pair from two
\* classes, or one holding None, always meets a raising comparison.
SortRaises(seq) ==
    \E i, j \in 1..Len(seq) :
        i # j /\ KeyRaises(sort_key(seq[i]), sort_key(seq[j]))

\* An insertion that puts st ahead of the elements whose key equals its
\* own: a descending sort that is not stable.
RECURSIVE InsertDescUnstable(_, _)
InsertDescUnstable(sorted, st) ==
    IF sorted = <<>> THEN <<st>>
    ELSE IF ~KeyLess(sort_key(st), sort_key(Head(sorted)))
    THEN <<st>> \o sorted
    ELSE <<Head(sorted)>> \o InsertDescUnstable(Tail(sorted), st)

\* Stable insertion of st into a list sorted descending: st goes behind
\* every element whose key is not less than its own.
RECURSIVE InsertDesc(_, _)
InsertDesc(sorted, st) ==
    IF sorted = <<>> THEN <<st>>
    ELSE IF KeyLess(sort_key(Head(sorted)), sort_key(st))
    THEN <<st>> \o sorted
    ELSE <<Head(sorted)>> \o InsertDesc(Tail(sorted), st)

\* scored.sort(key=..., reverse=True): descending, and stable (reverse=True
\* keeps the input order of elements with equal keys).
RECURSIVE SortDesc(_, _, _)
SortDesc(seq, i, acc) ==
    IF i > Len(seq) THEN acc
    ELSE SortDesc(seq, i + 1, InsertDesc(acc, seq[i]))

\* The returned dicts: the task's fields (without _internal_id) and the four
\* added fields; pos is the record's position in the input batch.
OutputRecord(st) ==
    [task |-> st.task, pos |-> st.pos, score |-> st.score,
     strategy_used |-> st.strategy, has_cycle |-> st.has_cycle,
     importance |-> st.importance, urgency |-> st.urgency,
     effort |-> st.effort, blocks |-> st.blocks]

NoResult == [kind |-> "pending", items |-> <<>>]
ListResult(items) == [kind |-> "list", items |-> items]
TypeErrorResult == [kind |-> "TypeError", items |-> <<>>]

-----------------------------------------------------------------------------
(* The input batches.                                                      *)

ImpVals ==
    {ImpAbsent, ImpNone, ImpStr("high"), ImpStr("low"),
     ImpInt(0), ImpInt(5), ImpInt(9), ImpInt(12), ImpInt(15)}

DueVals ==
    {DueNone} \cup {DueIn(n) : n \in {-10, -7, -2, -1, 0, 1, 9, 10, 11}}

HoursVals ==
    {HoursNone} \cup {HoursOf(n) : n \in {-10, 0, 5, 10, 20, 30, 60, 80, 110}}

Strategies ==
    {"fastest_wins", "high_impact", "deadline_driven", "smart_balance", "other"}

\* An absent id is "": `task.get("id") or str(idx)` treats both alike.
GraphIds == {"", "a", "1"}
GraphDeps == {<<>>, <<"a">>, <<"1">>}

\* (id, dependencies) of the tasks of a graph batch: every id with every
\* dependency list, and a task that lists one dependency twice.
GraphShapes ==
    {[id |-> i, deps |-> d] : i \in GraphIds, d \in GraphDeps}
    \cup {[id |-> "1", deps |-> <<"a", "a">>]}

Batches(S, n) == UNION {[1..k -> S] : k \in 0..n}

\* Batches whose tasks differ in importance only.
ImpBatches ==
    UNION {Batches({[id |-> "", importance |-> i, due |-> c.due,
                     hours |-> c.hours, deps |-> <<>>] : i \in ImpVals},
                   MaxRankTasks)
           : c \in {[due |-> DueNone, hours |-> HoursNone],
                    [due |-> DueIn(5), hours |-> HoursOf(20)]}}

\* Batches whose tasks differ in due date (and in importance).
DueBatches ==
    Batches({[id |-> "", importance |-> i, due |-> d,
              hours |-> HoursOf(20), deps |-> <<>>]
             : i \in {ImpInt(5), ImpInt(7)}, d \in DueVals},
            MaxRankTasks)

\* Batches whose tasks differ in estimated hours (and in importance).
HoursBatches ==
    Batches({[id |-> "", importance |-> i, due |-> DueIn(3),
              hours |-> h, deps |-> <<>>]
             : i \in {ImpInt(3), ImpInt(8)}, h \in HoursVals},
            MaxRankTasks)

\* Batches whose tasks differ in id and dependency list.
GraphBatches ==
    Batches({[id |-> g.id, importance |-> ImpInt(5), due |-> DueNone,
              hours |-> HoursNone, deps |-> g.deps]
             : g \in GraphShapes},
            MaxGraphTasks)

CustomWeights ==
    {WeightsDict({}, [k \in WeightKeys |-> 0]),
     WeightsDict({"importance"}, [k \in WeightKeys |-> 125])}

Inputs ==
    {[tasks |-> b, strategy |-> s, weights |-> WeightsNone]
        : b \in ImpBatches, s \in Strategies}
    \cup {[tasks |-> b, strategy |-> "smart_balance", weights |-> w]
        : b \in ImpBatches, w \in CustomWeights}
    \cup {[tasks |-> b, strategy |-> "deadline_driven", weights |-> WeightsNone]
        : b \in DueBatches}
    \cup {[tasks |-> b, strategy |-> "fastest_wins", weights |-> WeightsNone]
        : b \in HoursBatches}
    \cup {[tasks |-> b, strategy |-> "smart_balance", weights |-> WeightsNone]
        : b \in GraphBatches}

-----------------------------------------------------------------------------
(* The state machine of one analyze_tasks call.                            *)

Init ==
    /\ \E inp \in Inputs :
        /\ tasks = inp.tasks
        /\ strategy = inp.strategy
        /\ weights = inp.weights
    /\ pc = "start"
    /\ internal_id = <<>>
    /\ graph_keys = <<>>
    /\ id_to_deps = <<>>
    /\ dependents_count = <<>>
    /\ visited = {}
    /\ on_stack = {}
    /\ in_cycle = {}
    /\ stack = <<>>
    /\ outer = 1
    /\ entered = <<>>
    /\ scored = <<>>
    /\ result = NoResult

\* if not tasks: return []
ReturnEmpty ==
    /\ pc = "start"
    /\ tasks = <<>>
    /\ pc' = "done"
    /\ result' = ListResult(<<>>)
    /\ UNCHANGED <<tasks, strategy, weights, internal_id, graph_keys, id_to_deps,
                   dependents_count, visited, on_stack, in_cycle, stack, outer,
                   entered, scored>>

\* graph, dependents = build_dependency_graph(tasks)
BuildGraph ==
    /\ pc = "start"
    /\ tasks # <<>>
    /\ LET b == build_dependency_graph(tasks) IN
        /\ internal_id' = b.ids
        /\ graph_keys' = b.keys
        /\ id_to_deps' = b.graph
        /\ dependents_count' = b.dependents
    /\ pc' = "cycles"
    /\ UNCHANGED <<tasks, strategy, weights, visited, on_stack, in_cycle, stack,
                   outer, entered, scored, result>>

\* graph.get(node, [])
Neighbors(node) ==
    IF node \in DOMAIN id_to_deps THEN id_to_deps[node] ELSE <<>>

Frame(node) == [node |-> node, at |-> "entry", idx |-> 1]
Top == stack[Len(stack)]
Pop == SubSeq(stack, 1, Len(stack) - 1)
SetTop(f) == [stack EXCEPT ![Len(stack)] = f]

\* for node in graph.keys(): if node not in visited: dfs(node)
DfsOuter ==
    /\ pc = "cycles"
    /\ stack = <<>>
    /\ outer <= Len(graph_keys)
    /\ outer' = outer + 1
    /\ stack' = IF graph_keys[outer] \in visited THEN stack
                ELSE <<Frame(graph_keys[outer])>>
    /\ UNCHANGED <<tasks, strategy, weights, pc, internal_id, graph_keys,
                   id_to_deps, dependents_count, visited, on_stack, in_cycle,
                   entered, scored, result>>

\* The head of dfs: return if the node is visited, else mark it visited and
\* put it on the stack.
DfsEnter ==
    /\ pc = "cycles"
    /\ stack # <<>>
    /\ Top.at = "entry"
    /\ IF Top.node \in visited
       THEN /\ stack' = Pop
            /\ UNCHANGED <<visited, on_stack, entered>>
       ELSE /\ visited' = visited \cup {Top.node}
            /\ on_stack' = on_stack \cup {Top.node}
            /\ entered' = Append(entered, Top.node)
            /\ stack' = SetTop([Top EXCEPT !.at = "loop"])
    /\ UNCHANGED <<tasks, strategy, weights, pc, internal_id, graph_keys,
                   id_to_deps, dependents_count, in_cycle, outer, scored, result>>

\* One iteration of `for neigh in graph.get(node, [])`.
DfsNeighbor ==
    /\ pc = "cycles"
    /\ stack # <<>>
    /\ Top.at = "loop"
    /\ Top.idx <= Len(Neighbors(Top.node))
    /\ LET neigh == Neighbors(Top.node)[Top.idx]
           next == [Top EXCEPT !.idx = Top.idx + 1]
       IN IF neigh \notin visited
          THEN /\ stack' = Append(SetTop(next), Frame(neigh))
               /\ UNCHANGED in_cycle
          ELSE IF neigh \in on_stack
          THEN /\ in_cycle' = in_cycle \cup {Top.node, neigh}
               /\ stack' = SetTop(next)
          ELSE /\ stack' = SetTop(next)
               /\ UNCHANGED in_cycle
    /\ UNCHANGED <<tasks, strategy, weights, pc, internal_id, graph_keys,
                   id_to_deps, dependents_count, visited, on_stack, outer,
                   entered, scored, result>>

\* dfs returning without on_stack.remove(node).
DfsReturnKeepsOnStack ==
    /\ pc = "cycles"
    /\ stack # <<>>
    /\ Top.at = "loop"
    /\ Top.idx > Len(Neighbors(Top.node))
    /\ stack' = Pop
    /\ UNCHANGED <<tasks, strategy, weights, pc, internal_id, graph_keys,
                   id_to_deps, dependents_count, visited, on_stack, in_cycle,
                   outer, entered, scored, result>>

\* on_stack.remove(node), and dfs returns to its caller.
DfsReturn ==
    /\ pc = "cycles"
    /\ stack # <<>>
    /\ Top.at = "loop"
    /\ Top.idx > Len(Neighbors(Top.node))
    /\ on_stack' = on_stack \ {Top.node}
    /\ stack' = Pop
    /\ UNCHANGED <<tasks, strategy, weights, pc, internal_id, graph_keys,
                   id_to_deps, dependents_count, visited, in_cycle, outer,
                   entered, scored, result>>

\* return in_cycle
DfsDone ==
    /\ pc = "cycles"
    /\ stack = <<>>
    /\ outer > Len(graph_keys)
    /\ pc' = "score"
    /\ UNCHANGED <<tasks, strategy, weights, internal_id, graph_keys, id_to_deps,
                   dependents_count, visited, on_stack, in_cycle, stack, outer,
                   entered, scored, result>>

\* for task in tasks: scored.append(score_task(...))
ScoreTasks ==
    /\ pc = "score"
    /\ scored' = [i \in 1..Len(tasks) |->
                    [pos |-> i] @@ score_task(tasks[i], internal_id[i], strategy,
                                               dependents_count, weights, in_cycle)]
    /\ pc' = "sort"
    /\ UNCHANGED <<tasks, strategy, weights, internal_id, graph_keys, id_to_deps,
                   dependents_count, visited, on_stack, in_cycle, stack, outer,
                   entered, result>>

\* scored.sort(...), then the result list is built and returned; a TypeError
\* raised by a key comparison leaves analyze_tasks instead.
SortAndReturn ==
    /\ pc = "sort"
    /\ result' = IF SortRaises(scored) THEN TypeErrorResult
                 ELSE LET sorted == SortDesc(scored, 1, <<>>) IN
                      ListResult([i \in 1..Len(sorted) |-> OutputRecord(sorted[i])])
    /\ pc' = "done"
    /\ UNCHANGED <<tasks, strategy, weights, internal_id, graph_keys, id_to_deps,
                   dependents_count, visited, on_stack, in_cycle, stack, outer,
                   entered, scored>>

Next ==
    \/ ReturnEmpty
    \/ BuildGraph
    \/ DfsOuter
    \/ DfsEnter
    \/ DfsNeighbor
    \/ DfsReturn
    \/ DfsDone
    \/ ScoreTasks
    \/ SortAndReturn

Spec == Init /\ [][Next]_vars

-----------------------------------------------------------------------------
(* Vocabulary of the properties.                                           *)

Done == pc = "done"
Returned == pc = "done" /\ result.kind = "list"
Items == result.items
Positions == 1..Len(Items)

\* The graph and the id assignment exist from the end of BuildGraph on.
GraphBuilt == pc \notin {"start"} /\ tasks # <<>>

\* detect_cycles has returned.
CyclesDone == pc \in {"score", "sort", "done"} /\ tasks # <<>>

\* The scored list exists.
Scored == pc \in {"sort", "done"} /\ tasks # <<>>

\* a is strictly greater than b as Python orders raw importance values.
ImpGreater(a, b) == Orderable(a, b) /\ ImpLess(b, a)

IsInt(task) == task.importance.kind = "int"
HasDate(task) == task.due.kind = "date"
HasHours(task) == task.hours.kind = "num"
Elems(seq) == {seq[k] : k \in 1..Len(seq)}

-----------------------------------------------------------------------------
(* C1: the returned list is ordered descending by (score, raw importance), *)
(* and records that tie on both keys keep their input order.               *)
C1_SortedDescStable ==
    Returned =>
        \A i, j \in Positions :
            i < j =>
                LET a == Items[i]
                    b == Items[j]
                    ia == raw_importance(a.task)
                    ib == raw_importance(b.task)
                IN \/ a.score > b.score
                   \/ a.score = b.score /\ ImpGreater(ia, ib)
                   \/ a.score = b.score /\ ia = ib /\ a.pos < b.pos

\* A returned list in which a later input record was moved ahead of an
\* earlier one by the importance tie-break alone.
C1_Witness ==
    /\ Returned
    /\ \E i, j \in Positions :
        /\ i < j
        /\ Items[i].score = Items[j].score
        /\ Items[i].pos > Items[j].pos
        /\ ImpGreater(raw_importance(Items[i].task), raw_importance(Items[j].task))

-----------------------------------------------------------------------------
-----------------------------------------------------------------------------
(* C3 as stated: under fastest_wins, of two tasks with equal importance    *)
(* and equal due date the one with the lower estimated_hours is placed     *)
(* first, for every pair of distinct hour values.                          *)
C3_LowerHoursFirst_AnyHours ==
    (Returned /\ strategy = "fastest_wins") =>
        \A i, j \in Positions :
            LET a == Items[i].task
                b == Items[j].task
            IN (/\ a.importance = b.importance
                /\ a.due = b.due
                /\ HasHours(a) /\ HasHours(b)
                /\ a.hours.tenths < b.hours.tenths) => i < j

\* The upper ends of the effort buckets, in tenths of an hour.
BucketEnds == {10, 30, 60, 100}

(* C3 amended: the same, when both hour values are positive and an effort  *)
(* bucket ends between them (lower <= 1, 3, 6 or 10 hours < higher).       *)
C3_LowerHoursFirst_AcrossBuckets ==
    (Returned /\ strategy = "fastest_wins") =>
        \A i, j \in Positions :
            LET a == Items[i].task
                b == Items[j].task
            IN (/\ a.importance = b.importance
                /\ a.due = b.due
                /\ HasHours(a) /\ HasHours(b)
                /\ a.hours.tenths > 0
                /\ \E e \in BucketEnds :
                      a.hours.tenths <= e /\ e < b.hours.tenths) => i < j

\* The slower task came first in the input and the faster one, from a
\* lower bucket, was returned first.
C3_Witness ==
    /\ Returned /\ strategy = "fastest_wins"
    /\ \E i, j \in Positions :
        /\ i < j
        /\ Items[i].pos > Items[j].pos
        /\ Items[i].task.importance = Items[j].task.importance
        /\ Items[i].task.due = Items[j].task.due
        /\ HasHours(Items[i].task) /\ HasHours(Items[j].task)
        /\ Items[i].task.hours.tenths > 0
        /\ \E e \in BucketEnds :
              Items[i].task.hours.tenths <= e /\ e < Items[j].task.hours.tenths

-----------------------------------------------------------------------------
\* An integer importance brought into [1, 10], in hundredths of a score.
NormalizedScore(task) ==
    IF ~IsInt(task) THEN 500
    ELSE IF task.importance.int < 1 THEN 100
    ELSE IF task.importance.int > 10 THEN 1000
    ELSE 100 * task.importance.int

\* Every task of the batch has the same due date, effort and dependencies.
SameButImportance ==
    \A i, j \in 1..Len(tasks) :
        /\ tasks[i].due = tasks[j].due
        /\ tasks[i].hours = tasks[j].hours
        /\ tasks[i].deps = tasks[j].deps

(* C4: under high_impact, a batch whose tasks agree on due date, effort    *)
(* and dependencies is returned by importance descending: a task with a    *)
(* higher importance value precedes one with a lower value, each score is  *)
(* the importance normalized to [1,10], and a batch of integer             *)
(* importances is always returned.                                         *)
C4_HighImpactByImportance ==
    (Done /\ strategy = "high_impact" /\ SameButImportance) =>
        /\ (\A k \in 1..Len(tasks) : IsInt(tasks[k])) => result.kind = "list"
        /\ result.kind = "list" =>
            /\ Len(Items) = Len(tasks)
            /\ \A i \in Positions : Items[i].score = NormalizedScore(Items[i].task)
            /\ \A i, j \in Positions :
                (/\ IsInt(Items[i].task) /\ IsInt(Items[j].task)
                 /\ Items[i].task.importance.int > Items[j].task.importance.int)
                    => i < j

\* Two importances above 10 (equal scores after clamping) given lower
\* first and returned higher first.
C4_Witness ==
    /\ Returned /\ strategy = "high_impact" /\ SameButImportance
    /\ \E i, j \in Positions :
        /\ i < j
        /\ Items[i].pos > Items[j].pos
        /\ IsInt(Items[i].task) /\ IsInt(Items[j].task)
        /\ Items[j].task.importance.int > 10
        /\ Items[i].task.importance.int > Items[j].task.importance.int
        /\ Items[i].score = 1000

-----------------------------------------------------------------------------
\* Importance is absent, None, a non-numeric str or an int, and due date,
\* hours and dependencies are absent or None.
OnlyImportanceGiven ==
    \A k \in 1..Len(tasks) :
        /\ tasks[k].due = DueNone
        /\ tasks[k].hours = HoursNone
        /\ tasks[k].deps = <<>>

(* C5: a batch whose optional fields are missing or malformed never ends   *)
(* in an error: a ranked list with one record per task is returned, with   *)
(* importance 5, urgency 5.0 and effort 6.0 standing in for the bad field. *)
C5_MalformedNeverRaises ==
    (Done /\ OnlyImportanceGiven) =>
        /\ result.kind = "list"
        /\ Len(Items) = Len(tasks)
        /\ \A i \in Positions :
            /\ Items[i].urgency.score = 5
            /\ Items[i].effort.score = 6
            /\ ~IsInt(Items[i].task) => Items[i].importance = 5

-----------------------------------------------------------------------------
(* C6: after build_dependency_graph every task holds one internal id and   *)
(* no two tasks of the batch hold the same one.                            *)
C6_InternalIdsUnique ==
    GraphBuilt =>
        /\ DOMAIN internal_id = 1..Len(tasks)
        /\ \A i, j \in 1..Len(tasks) :
            i # j => internal_id[i] # internal_id[j]

-----------------------------------------------------------------------------
\* The tasks, other than the holders of id, that list id as a dependency.
OtherDependents(id) ==
    {k \in 1..Len(tasks) : internal_id[k] # id /\ id \in Elems(tasks[k].deps)}

(* C7: the dependents count of every id is the number of other tasks of    *)
(* the batch that list it as a dependency, and every referenced id is      *)
(* counted, task of the batch or not.                                      *)
C7_DependentsCountOthers ==
    GraphBuilt =>
        /\ \A k \in 1..Len(tasks) : Elems(tasks[k].deps) \subseteq DOMAIN dependents_count
        /\ \A id \in DOMAIN dependents_count :
            dependents_count[id] = Cardinality(OtherDependents(id))

-----------------------------------------------------------------------------
(* C8: two tasks with distinct ids that list each other as a dependency    *)
(* are both returned with has_cycle = true, whatever else the batch holds. *)
C8_MutualPairFlagged ==
    Returned =>
        \A i, j \in Positions :
            LET a == Items[i]
                b == Items[j]
                ida == internal_id[a.pos]
                idb == internal_id[b.pos]
            IN (/\ ida # idb
                /\ idb \in Elems(a.task.deps)
                /\ ida \in Elems(b.task.deps)) => a.has_cycle /\ b.has_cycle

-----------------------------------------------------------------------------
\* Days overdue of a task whose due date is before today.
Overdue(task) == HasDate(task) /\ task.due.days < 0
DaysOverdue(task) == -task.due.days

(* C9: the urgency of an overdue task lies in [7,10], never drops as the   *)
(* task gets more days overdue, and is the same from 7 days overdue on.    *)
C9_OverdueUrgencyMonotone ==
    Scored =>
        \A i, j \in 1..Len(scored) :
            (Overdue(scored[i].task) /\ Overdue(scored[j].task)) =>
                /\ scored[i].urgency.score >= 7
                /\ scored[i].urgency.score <= 10
                /\ DaysOverdue(scored[i].task) >= DaysOverdue(scored[j].task)
                    => scored[i].urgency.score >= scored[j].urgency.score
                /\ (DaysOverdue(scored[i].task) >= 7 /\ DaysOverdue(scored[j].task) >= 7)
                    => scored[i].urgency.score = scored[j].urgency.score

-----------------------------------------------------------------------------
\* No node passed the guard of dfs more than once.
EnteredOnce ==
    \A m, n \in 1..Len(entered) : m # n => entered[m] # entered[n]

\* Every id of the graph: its keys and every dependency id.
Nodes ==
    Elems(graph_keys) \cup UNION {Elems(id_to_deps[k]) : k \in DOMAIN id_to_deps}

RECURSIVE SumOver(_, _)
SumOver(S, f) ==
    IF S = {} THEN 0
    ELSE LET x == CHOOSE y \in S : TRUE IN f[x] + SumOver(S \ {x}, f)

\* The steps a frame still takes: the rest of its loop and its return, or
\* the immediate return of a frame whose node is already visited.
FrameWork(f) ==
    IF f.at = "loop" THEN Len(Neighbors(f.node)) - f.idx + 2
    ELSE IF f.node \in visited THEN 1 ELSE 0

\* The steps detect_cycles has left: the rest of the outer loop and its
\* return, for every node not yet visited its entry, its edges and its
\* return, and the work of the frames on the stack.  At the start of the
\* traversal this is |keys| + 1 + the sum of (2 + out-degree) over the
\* nodes: linear in V + E.
Remaining ==
    (Len(graph_keys) - outer + 1)
    + (IF pc = "cycles" THEN 1 ELSE 0)
    + SumOver(Nodes \ visited, [n \in Nodes \ visited |-> 2 + Len(Neighbors(n))])
    + SumOver(1..Len(stack), [k \in 1..Len(stack) |-> FrameWork(stack[k])])

(* C10: detect_cycles terminates: every step of the traversal uses up one  *)
(* unit of a bound that is linear in nodes plus edges and a step is        *)
(* possible until it has returned, no node is entered twice, and when it   *)
(* returns the on-stack set is empty, every key was visited and in_cycle   *)
(* is a set of visited nodes.                                              *)
C10_DetectCyclesTerminates ==
    /\ [][pc = "cycles" => Remaining' = Remaining - 1]_vars
    /\ [](pc = "cycles" => (Remaining > 0 /\ ENABLED Next))
    /\ [](pc = "score" => Remaining = 0)
    /\ [](EnteredOnce)
    /\ [](CyclesDone => (/\ on_stack = {}
                         /\ stack = <<>>
                         /\ in_cycle \subseteq visited
                         /\ Elems(graph_keys) \subseteq visited))

\* The traversal has finished on a graph with a cycle, a dependency id
\* that is no key of the graph, and a dependency listed twice.
C10_Witness ==
    /\ CyclesDone /\ pc = "score"
    /\ in_cycle # {}
    /\ visited \ Elems(graph_keys) # {}
    /\ \E k \in 1..Len(tasks) :
        Len(tasks[k].deps) = 2 /\ tasks[k].deps[1] = tasks[k].deps[2]

====
